---- MODULE Spec2Model ----
(***************************************************************************)
(* Model of tide-calendar (src/tides.py, src/app.py): the write-once file  *)
(* cache behind retrieve_url_and_cache, the sunrise/sunset grid parser     *)
(* (parse_table, get_daylight), and the query find_tides with its four     *)
(* filters.                                                                *)
(*                                                                         *)
(* Representation.  A cache file is "missing", "empty" (created by         *)
(* open(path, "w") but never written) or "written" (the whole decoded      *)
(* response was written).  A clock text "HH:MM" is the pair <<HH, MM>>, a  *)
(* date text "YYYY/MM/DD" is the triple <<YYYY, MM, DD>>, an empty table   *)
(* cell is <<>>.  A decimal text is a string, converted by ParseFloat to   *)
(* hundredths.  Timestamps are epoch seconds.                              *)
(***************************************************************************)
EXTENDS Integers, Sequences, FiniteSets, TLC

VARIABLES
    cache,         \* the files of CACHE_DIR: path -> "missing" | "empty" | "written"
    now,           \* the calendar year of the wall clock
    CURRENT_YEAR,  \* tides.CURRENT_YEAR, set when the module is imported
    call,          \* the last request served and what it returned
    remembered,    \* history: an earlier successful find_tides call
    tideFeed,      \* upstream: the body rows of the annual tide prediction text
    sunriseGrid,   \* upstream: first table of the daylight document
    sunsetGrid,    \* upstream: second table of the daylight document
    daylightInfo,  \* what the last get_daylight returned
    probe,         \* a (timestamp, Daylight) pair handed to filter_hours
    verdict        \* filter_hours(probe) under each HoursFilter

vars == <<cache, now, CURRENT_YEAR, call, remembered, tideFeed, sunriseGrid,
          sunsetGrid, daylightInfo, probe, verdict>>

----------------------------------------------------------------------------
(* Bounds of the model *)

\* longest tide feed, in rows
MaxRows == 2
\* day-of-month rows of each sunrise/sunset grid
GridDays == 2
\* how many times the calendar year may change while the process runs
MaxNewYears == 1

\* the year the process is started in
StartYear == 2024
Years == StartYear .. (StartYear + MaxNewYears)
\* month columns of the grids that are modelled (both in daylight-saving time)
GridMonths == {6, 7}
GridCells == GridMonths \X (1 .. GridDays)

----------------------------------------------------------------------------
(* Constants and enumerations of tides.py *)

\* a mutation of ONE_HOUR: an hour counted in minutes
ONE_HOUR_in_minutes == 1 * 60

ONE_HOUR == 60 * 60

TideTypeValues == {"low", "high"}
DayFilterValues == {"any", "weekday", "weekend"}
HoursFilterValues == {"day", "day_1", "night", "anytime"}

\* marks a call that raised instead of returning a value
Raised(e) == [raised |-> TRUE, error |-> e, value |-> "none"]
Returned(v) == [raised |-> FALSE, error |-> "none", value |-> v]

\* a mutation of TideType._missing_: the two aliases are exchanged
TideType_missing_swapped(value) ==
    IF value = "L" THEN "high"
    ELSE IF value = "H" THEN "low"
    ELSE "None"

\* TideType._missing_: the value looked up when the string is no member value
TideType_missing_(value) ==
    IF value = "L" THEN "low"
    ELSE IF value = "H" THEN "high"
    ELSE "None"

\* TideType(value): by value, else through _missing_, else ValueError
TideType(value) ==
    IF value \in TideTypeValues THEN Returned(value)
    ELSE IF TideType_missing_(value) \in TideTypeValues
         THEN Returned(TideType_missing_(value))
         ELSE Raised("ValueError")

DayFilter(value) ==
    IF value \in DayFilterValues THEN Returned(value) ELSE Raised("ValueError")

HoursFilter(value) ==
    IF value \in HoursFilterValues THEN Returned(value) ELSE Raised("ValueError")

\* float(text), in hundredths; ValueError for a text that is no number
FloatTexts == {"0.0", "0.00", "-1.20", "-2.0", "-2.50", "1.5"}
ParseFloat(text) ==
    CASE text \in {"0.0", "0.00"} -> Returned(0)
      [] text = "-1.20" -> Returned(-120)
      [] text = "-2.0" -> Returned(-200)
      [] text = "-2.50" -> Returned(-250)
      [] text = "1.5" -> Returned(150)
      [] OTHER -> Raised("ValueError")

\* int(text) of a year argument
ParseInt(text) ==
    CASE text = "2024" -> Returned(2024)
      [] text = "2025" -> Returned(2025)
      [] text = "2026" -> Returned(2026)
      [] OTHER -> Raised("ValueError")

\* str.lower() on the flags and value initials that occur
Lower(s) ==
    CASE s = "H" -> "h"
      [] s = "L" -> "l"
      [] s = "X" -> "x"
      [] OTHER -> s

\* value[0] of a TideType value
FirstChar(value) == IF value = "low" THEN "l" ELSE "h"

----------------------------------------------------------------------------
(* datetime, pytz *)

\* days since 1970-01-01 of a proleptic Gregorian date
DaysFromCivil(y, m, d) ==
    LET yy == IF m <= 2 THEN y - 1 ELSE y
        era == yy \div 400
        yoe == yy - era * 400
        mp == IF m > 2 THEN m - 3 ELSE m + 9
        doy == (153 * mp + 2) \div 5 + d - 1
        doe == yoe * 365 + yoe \div 4 - yoe \div 100 + doy
    IN era * 146097 + doe - 719468

\* datetime.weekday(): Monday is 0, Sunday is 6
Weekday(date) == (DaysFromCivil(date[1], date[2], date[3]) + 3) % 7

\* the zone the daylight document names, America/Los_Angeles: its offset from
\* UTC in the months of daylight-saving time and outside them
UtcOffset(month) == IF month \in 4 .. 10 THEN -7 * 3600 ELSE -8 * 3600
TzZone == "America/Los_Angeles"

\* int(tz.localize(datetime(y, m, d, hour, minute)).timestamp())
Localize(date, clock) ==
    DaysFromCivil(date[1], date[2], date[3]) * 86400
        + clock[1] * 3600 + clock[2] * 60 - UtcOffset(date[2])

----------------------------------------------------------------------------
(* find_tides: the filters *)

\* a mutation of filter_tide_type: every flag matches
filter_tide_type_any(tide_type, value) == TRUE

filter_tide_type(tide_type, value) == Lower(FirstChar(tide_type)) = value

filter_day(day_filter, date) ==
    CASE day_filter = "any" -> TRUE
      [] day_filter = "weekday" -> Weekday(date) <= 4
      [] day_filter = "weekend" -> Weekday(date) >= 5

\* a mutation of filter_hours: the bounds of the day are exclusive
filter_hours_exclusive(hours_filter, date_ts, daylight_obj) ==
    CASE hours_filter = "day" ->
            date_ts > daylight_obj.sunrise /\ date_ts < daylight_obj.sunset
      [] hours_filter = "day_1" ->
            date_ts > (daylight_obj.sunrise - ONE_HOUR)
                /\ date_ts < (daylight_obj.sunset + ONE_HOUR)
      [] hours_filter = "night" ->
            date_ts < daylight_obj.sunrise \/ date_ts > daylight_obj.sunset
      [] hours_filter = "anytime" -> TRUE

filter_hours(hours_filter, date_ts, daylight_obj) ==
    CASE hours_filter = "day" ->
            date_ts >= daylight_obj.sunrise /\ date_ts <= daylight_obj.sunset
      [] hours_filter = "day_1" ->
            date_ts >= (daylight_obj.sunrise - ONE_HOUR)
                /\ date_ts <= (daylight_obj.sunset + ONE_HOUR)
      [] hours_filter = "night" ->
            date_ts < daylight_obj.sunrise \/ date_ts > daylight_obj.sunset
      [] hours_filter = "anytime" -> TRUE

----------------------------------------------------------------------------
(* The cache directory and the upstream servers *)

StationsPath == <<"stations", 0>>
TidesPath(year) == <<"tides", year>>
DaylightPath(year) == <<"daylight", year>>
Paths == {StationsPath} \cup {TidesPath(y) : y \in Years}
            \cup {DaylightPath(y) : y \in Years}

\* what can happen to one urlopen / read / decode / write sequence
Outcomes == {"ok", "urlopen", "read", "decode"}

\* a mutation of retrieve_url_and_cache: the existence test is dropped
retrieve_url_and_cache_always(c, path, outcome) ==
    IF outcome = "urlopen"
    THEN [cache |-> c, fetched |-> {path}, raised |-> TRUE, error |-> "URLError"]
    ELSE IF outcome \in {"read", "decode"}
    THEN [cache |-> [c EXCEPT ![path] = "empty"], fetched |-> {path},
          raised |-> TRUE,
          error |-> IF outcome = "read" THEN "OSError" ELSE "UnicodeDecodeError"]
    ELSE [cache |-> [c EXCEPT ![path] = "written"], fetched |-> {path},
          raised |-> FALSE, error |-> "none"]

\* retrieve_url_and_cache(url, path) on cache directory c: the directory
\* afterwards, the paths fetched from the network, and whether it raised.
\* open(path, "w") creates the file before the response is read and decoded.
retrieve_url_and_cache(c, path, outcome) ==
    IF c[path] # "missing"
    THEN [cache |-> c, fetched |-> {}, raised |-> FALSE, error |-> "none"]
    ELSE IF outcome = "urlopen"
    THEN [cache |-> c, fetched |-> {path}, raised |-> TRUE, error |-> "URLError"]
    ELSE IF outcome \in {"read", "decode"}
    THEN [cache |-> [c EXCEPT ![path] = "empty"], fetched |-> {path},
          raised |-> TRUE,
          error |-> IF outcome = "read" THEN "OSError" ELSE "UnicodeDecodeError"]
    ELSE [cache |-> [c EXCEPT ![path] = "written"], fetched |-> {path},
          raised |-> FALSE, error |-> "none"]

\* the station directory the upstream table lists
DefaultStation == "9447130"
StationList == <<[nos_id |-> DefaultStation, name |-> "Seattle", state |-> "WA"]>>

\* the rows the tide server sends for a year: the feed, dated in that year
TideResponse(feed, year) ==
    [i \in 1 .. Len(feed) |-> [feed[i] EXCEPT !.date[1] = year]]

----------------------------------------------------------------------------
(* get_stations, get_tides, parse_table, get_daylight *)

\* get_stations() on cache directory c
get_stations(c, outcome) ==
    LET r == retrieve_url_and_cache(c, StationsPath, outcome)
    IN  IF r.raised THEN r @@ [value |-> <<>>]
        ELSE IF r.cache[StationsPath] = "empty"
        \* soup.css.select("#NWSTable") is empty: tables[0]
        THEN [r EXCEPT !.raised = TRUE, !.error = "IndexError"] @@ [value |-> <<>>]
        ELSE r @@ [value |-> StationList]

\* get_tides(station, year): an empty file has no preamble, header or rows
get_tides(c, feed, year, outcome) ==
    LET r == retrieve_url_and_cache(c, TidesPath(year), outcome)
    IN  IF r.raised THEN r @@ [value |-> <<>>]
        ELSE IF r.cache[TidesPath(year)] = "empty" THEN r @@ [value |-> <<>>]
        ELSE r @@ [value |-> TideResponse(feed, year)]

\* the cells of a grid that hold text
FilledCells(table) == {cell \in DOMAIN table : table[cell] # <<>>}

\* parse_table(table, year, tz): date -> timestamp of its cell
parse_table(table, year) ==
    [date \in {<<year, cell[1], cell[2]>> : cell \in FilledCells(table)} |->
        Localize(date, table[<<date[2], date[3]>>])]

\* the loop of get_daylight over sunrise.keys(); sunset[date] raises KeyError
DaylightTimes(sunrise, sunset) ==
    IF \E date \in DOMAIN sunrise : date \notin DOMAIN sunset
    THEN Raised("KeyError")
    ELSE Returned([date \in DOMAIN sunrise |->
                     [sunrise |-> sunrise[date], sunset |-> sunset[date]]])

\* the parse of the daylight document by get_daylight
ParseDaylight(rise, set, year) ==
    LET times == DaylightTimes(parse_table(rise, year), parse_table(set, year))
    IN  IF times.raised THEN times
        ELSE Returned([daylight |-> times.value, tz |-> TzZone])

NoDaylightInfo == [daylight |-> <<>>, tz |-> "none"]

\* get_daylight(station, year) on cache directory c
get_daylight(c, rise, set, year, outcome) ==
    LET r == retrieve_url_and_cache(c, DaylightPath(year), outcome)
    IN  IF r.raised THEN r @@ [value |-> NoDaylightInfo]
        ELSE IF r.cache[DaylightPath(year)] = "empty"
        \* no "Time Zone Offset" element: soup.find_all(...)[0]
        THEN [r EXCEPT !.raised = TRUE, !.error = "IndexError"]
                 @@ [value |-> NoDaylightInfo]
        ELSE LET parsed == ParseDaylight(rise, set, year)
             IN  IF parsed.raised
                 THEN [r EXCEPT !.raised = TRUE, !.error = parsed.error]
                          @@ [value |-> NoDaylightInfo]
                 ELSE r @@ [value |-> parsed.value]

----------------------------------------------------------------------------
(* find_tides *)

DefaultArgs ==
    [station |-> DefaultStation, year |-> "omitted", tide_type |-> "low",
     prediction_limit |-> "0.0", day_filter |-> "any", hours_filter |-> "day"]

\* a mutation of SanityCheck: the assertion is not evaluated
SanityCheck_skipped(hl) == TRUE

\* assert hl in ["H", "L"]
SanityCheck(hl) == hl \in {"H", "L"}

\* the Tide appended for a row that passed the filters
MakeTide(row, pred, date_ts, daylight_obj) ==
    [date |-> row.date, tide_type |-> TideType(row.hl).value, tide |-> date_ts,
     prediction |-> pred, daylight |-> daylight_obj]

\* the four filters of the loop body, on one row
RowMatches(q, row, pred, date_ts, daylight_obj) ==
    /\ filter_tide_type(q.tide_type, Lower(row.hl))
    /\ pred < q.prediction_limit
    /\ filter_day(q.day_filter, row.date)
    /\ filter_hours(q.hours_filter, date_ts, daylight_obj)

\* the loop of find_tides over the rows from row i on, tides collected so far.
\* Every row is converted and checked before it is filtered.  (The loop also
\* rebinds year to the year of the row's date; nothing reads it afterwards.)
RECURSIVE ScanRows(_, _, _, _, _)
ScanRows(rows, i, tides, q, daylight) ==
    IF i > Len(rows) THEN Returned(tides)
    ELSE LET row == rows[i]
             pred == ParseFloat(row.pred)
         IN  IF pred.raised THEN Raised("ValueError")
             ELSE IF ~SanityCheck(row.hl) THEN Raised("AssertionError")
             ELSE IF row.date \notin DOMAIN daylight THEN Raised("KeyError")
             ELSE LET date_ts == Localize(row.date, row.time)
                      daylight_obj == daylight[row.date]
                  IN  IF ~RowMatches(q, row, pred.value, date_ts, daylight_obj)
                      THEN ScanRows(rows, i + 1, tides, q, daylight)
                      ELSE IF TideType(row.hl).raised THEN Raised("ValueError")
                      ELSE ScanRows(rows, i + 1,
                                    Append(tides, MakeTide(row, pred.value, date_ts,
                                                           daylight_obj)),
                                    q, daylight)

\* the coercion of the string arguments, in the order find_tides makes them;
\* the year comes last, after the filters are defined
CoerceArgs(args, default_year) ==
    LET tide_type == TideType(args.tide_type)
        prediction_limit == ParseFloat(args.prediction_limit)
        day_filter == DayFilter(args.day_filter)
        hours_filter == HoursFilter(args.hours_filter)
        year == IF args.year = "omitted" THEN Returned(default_year)
                ELSE ParseInt(args.year)
    IN  IF tide_type.raised \/ prediction_limit.raised \/ day_filter.raised
            \/ hours_filter.raised \/ year.raised
        THEN Raised("ValueError")
        ELSE Returned([tide_type |-> tide_type.value,
                       prediction_limit |-> prediction_limit.value,
                       day_filter |-> day_filter.value,
                       hours_filter |-> hours_filter.value,
                       year |-> year.value])

\* what a request leaves behind when it raises
Failure(c, fetched, error) ==
    [cache |-> c, fetched |-> fetched, raised |-> TRUE, error |-> error,
     tides |-> <<>>, tz |-> "none", year |-> 0]

\* find_tides(**args) on cache directory c, the three retrievals having the
\* outcomes outs (stations, daylight, tides: the order of the calls)
find_tides(c, args, outs, feed, rise, set, default_year) ==
    LET stations == get_stations(c, outs[1])
    IN  IF stations.raised
        THEN Failure(stations.cache, stations.fetched, stations.error)
        ELSE IF ~\E i \in DOMAIN stations.value :
                    stations.value[i].nos_id = args.station
        THEN Failure(stations.cache, stations.fetched, "IndexError")
        ELSE
        LET q == CoerceArgs(args, default_year)
        IN  IF q.raised
            THEN Failure(stations.cache, stations.fetched, q.error)
            ELSE
            LET info == get_daylight(stations.cache, rise, set, q.value.year,
                                     outs[2])
                fetched2 == stations.fetched \cup info.fetched
            IN  IF info.raised THEN Failure(info.cache, fetched2, info.error)
                ELSE
                LET rows == get_tides(info.cache, feed, q.value.year, outs[3])
                    fetched3 == fetched2 \cup rows.fetched
                IN  IF rows.raised
                    THEN Failure(rows.cache, fetched3, rows.error)
                    ELSE
                    LET scan == ScanRows(rows.value, 1, <<>>, q.value,
                                         info.value.daylight)
                    IN  IF scan.raised
                        THEN Failure(rows.cache, fetched3, scan.error)
                        ELSE [cache |-> rows.cache, fetched |-> fetched3,
                              raised |-> FALSE, error |-> "none",
                              tides |-> scan.value, tz |-> info.value.tz,
                              year |-> q.value.year]

----------------------------------------------------------------------------
(* The state machine *)

NoCall ==
    [op |-> "none", at |-> 0, before |-> [p \in Paths |-> "missing"],
     args |-> DefaultArgs, fetched |-> {}, raised |-> FALSE, error |-> "none",
     tides |-> <<>>, tz |-> "none", year |-> 0]
NoMemory == [valid |-> FALSE, args |-> DefaultArgs, tides |-> <<>>, tz |-> "none"]
NoDaylight == [done |-> FALSE, raised |-> FALSE, error |-> "none",
               value |-> NoDaylightInfo]
NoVerdict == [done |-> FALSE, pass |-> [hf \in HoursFilterValues |-> FALSE]]
NoProbe == [t |-> 0, daylight |-> [sunrise |-> 0, sunset |-> 0]]

\* the process has imported tides.py and the cache directory is empty
Started ==
    /\ cache = [p \in Paths |-> "missing"]
    /\ now = StartYear
    /\ CURRENT_YEAR = now
    /\ call = NoCall
    /\ remembered = NoMemory
    /\ daylightInfo = NoDaylight
    /\ verdict = NoVerdict

\* the default of find_tides' year parameter, bound when the function is defined
DefaultYear == CURRENT_YEAR

\* history: remembered either stays, or becomes the request served before this
\* one when that was a find_tides that returned
Remember(keep) ==
    remembered' = IF keep /\ call.op = "find_tides" /\ ~call.raised
                  THEN [valid |-> TRUE, args |-> call.args,
                        tides |-> call.tides, tz |-> call.tz]
                  ELSE remembered

\* route /api/tides: tides.find_tides(**args)
ApiTides(args, outs, keep) ==
    \E r \in {find_tides(cache, args, outs, tideFeed, sunriseGrid, sunsetGrid,
                        DefaultYear)} :
        /\ cache' = r.cache
        /\ call' = [op |-> "find_tides", at |-> now, before |-> cache,
                    args |-> args, fetched |-> r.fetched, raised |-> r.raised,
                    error |-> r.error, tides |-> r.tides, tz |-> r.tz,
                    year |-> r.year]
        /\ Remember(keep)
        /\ UNCHANGED <<now, CURRENT_YEAR, tideFeed, sunriseGrid, sunsetGrid,
                       daylightInfo, probe, verdict>>

\* route /: the page is rendered from tides.get_stations()
Index(outcome, keep) ==
    \E r \in {get_stations(cache, outcome)} :
        /\ cache' = r.cache
        /\ call' = [NoCall EXCEPT !.op = "index", !.at = now, !.before = cache,
                                  !.fetched = r.fetched, !.raised = r.raised,
                                  !.error = r.error]
        /\ Remember(keep)
        /\ UNCHANGED <<now, CURRENT_YEAR, tideFeed, sunriseGrid,
                       sunsetGrid, daylightInfo, probe, verdict>>

\* the calendar year changes while the process keeps running
NewYear ==
    /\ now < StartYear + MaxNewYears
    /\ now' = now + 1
    /\ UNCHANGED <<cache, CURRENT_YEAR, call, remembered, tideFeed, sunriseGrid,
                   sunsetGrid, daylightInfo, probe, verdict>>

\* get_daylight(station, year) called on its own
GetDaylight(outcome) ==
    \E r \in {get_daylight(cache, sunriseGrid, sunsetGrid, CURRENT_YEAR, outcome)} :
        /\ cache' = r.cache
        /\ daylightInfo' = [done |-> TRUE, raised |-> r.raised,
                            error |-> r.error, value |-> r.value]
        /\ UNCHANGED <<now, CURRENT_YEAR, call, remembered, tideFeed,
                       sunriseGrid, sunsetGrid, probe, verdict>>

\* filter_hours applied to the probe under every HoursFilter
FilterHours ==
    /\ verdict' = [done |-> TRUE,
                   pass |-> [hf \in HoursFilterValues |->
                               filter_hours(hf, probe.t, probe.daylight)]]
    /\ UNCHANGED <<cache, now, CURRENT_YEAR, call, remembered, tideFeed,
                   sunriseGrid, sunsetGrid, daylightInfo, probe>>

----------------------------------------------------------------------------
(* Inputs *)

\* the clock texts of the sunrise and the sunset table
SunriseText == <<5, 12>>
SunsetText == <<21, 0>>

\* a table with every modelled cell filled, and one whose last July cell is
\* empty
FullGrid(text) == [cell \in GridCells |-> text]
PartialGrid(text) ==
    [cell \in GridCells |-> IF cell = <<7, GridDays>> THEN <<>> ELSE text]

\* the dates of the feed: a Monday, a Saturday, and the date of the cell that
\* PartialGrid leaves empty
Monday == <<StartYear, 7, 1>>
Saturday == <<StartYear, 6, 1>>
LastDate == <<StartYear, 7, GridDays>>

TideRow(date, time, pred, hl) ==
    [date |-> date, time |-> time, pred |-> pred, hl |-> hl]

\* rows of a tide feed: at noon, within the hour before sunrise, at night;
\* below and at the default limit; flagged H, L, and wrongly
TideRows ==
    { TideRow(Monday, <<12, 0>>, "-1.20", "L"),
      TideRow(Monday, <<12, 0>>, "-1.20", "H"),
      TideRow(Monday, <<4, 30>>, "-1.20", "L"),
      TideRow(Saturday, <<3, 30>>, "-1.20", "L"),
      TideRow(Saturday, <<12, 0>>, "0.00", "L"),
      TideRow(Saturday, <<12, 0>>, "-2.50", "H"),
      TideRow(Monday, <<12, 0>>, "-1.20", "X"),
      TideRow(Monday, <<12, 0>>, "-1.20", "l"),
      TideRow(LastDate, <<12, 0>>, "-1.20", "L") }

Feeds(n) == UNION {[1 .. k -> TideRows] : k \in 0 .. n}

\* the feeds of Spec: none, a low tide at noon, and one with a bad row after it
MainFeeds ==
    { <<>>,
      <<TideRow(Monday, <<12, 0>>, "-1.20", "L")>>,
      <<TideRow(Monday, <<12, 0>>, "-1.20", "L"),
        TideRow(Monday, <<12, 0>>, "-1.20", "X")>> }

\* the outcomes of the three retrievals of one request: the first one that
\* fails ends the request, so at most one of them fails
OutcomeVectors ==
    {outs \in [1 .. 3 -> Outcomes] :
        \A i, j \in 1 .. 3 : (outs[i] # "ok" /\ outs[j] # "ok") => i = j}

\* the arguments of the requests of Spec: the defaults, and the defaults with
\* one argument given, validly or not
MainArgs ==
    {DefaultArgs}
        \cup {[DefaultArgs EXCEPT !.year = y] : y \in {"2024", "20x4"}}
        \cup {[DefaultArgs EXCEPT !.tide_type = v] : v \in {"tall"}}
        \cup {[DefaultArgs EXCEPT !.prediction_limit = v] : v \in {"abc"}}
        \cup {[DefaultArgs EXCEPT !.day_filter = v] : v \in {"someday"}}
        \cup {[DefaultArgs EXCEPT !.hours_filter = v] : v \in {"noon"}}
        \cup {[DefaultArgs EXCEPT !.station = v] : v \in {"0000000"}}

\* the arguments of the requests of SpecQuery: every combination of filters
QueryArgs ==
    [station : {DefaultStation}, year : {"2024"},
     tide_type : {"low", "high", "L", "H"},
     prediction_limit : {"0.0", "-2.0"},
     day_filter : DayFilterValues, hours_filter : HoursFilterValues]

----------------------------------------------------------------------------
(* Spec: the process, its cache directory and its clock *)

Init ==
    /\ Started
    /\ tideFeed \in MainFeeds
    /\ \E rise \in {FullGrid(SunriseText)} :
       \E set \in {FullGrid(SunsetText), PartialGrid(SunsetText)} :
          sunriseGrid = rise /\ sunsetGrid = set
    /\ probe = NoProbe

Next ==
    \/ \E outcome \in Outcomes : \E keep \in BOOLEAN : Index(outcome, keep)
    \/ \E args \in MainArgs : \E outs \in OutcomeVectors : \E keep \in BOOLEAN :
          ApiTides(args, outs, keep)
    \/ NewYear

Spec == Init /\ [][Next]_vars

(* SpecQuery: find_tides over every feed and every combination of filters *)

InitQuery ==
    /\ Started
    /\ tideFeed \in Feeds(MaxRows)
    /\ \E grid \in {"full", "partial"} :
          /\ sunriseGrid = IF grid = "full" THEN FullGrid(SunriseText)
                           ELSE PartialGrid(SunriseText)
          /\ sunsetGrid = IF grid = "full" THEN FullGrid(SunsetText)
                          ELSE PartialGrid(SunsetText)
    /\ probe = NoProbe

\* one request on a process just started, every retrieval succeeding
NextQuery ==
    /\ call.op = "none"
    /\ \E args \in QueryArgs : ApiTides(args, <<"ok", "ok", "ok">>, FALSE)

SpecQuery == InitQuery /\ [][NextQuery]_vars

(* SpecDaylight: get_daylight over every pair of grids *)

InitDaylight ==
    /\ Started
    /\ tideFeed = <<>>
    /\ sunriseGrid \in [GridCells -> {<<>>, SunriseText}]
    /\ sunsetGrid \in [GridCells -> {<<>>, SunsetText}]
    /\ probe = NoProbe

NextDaylight == \E outcome \in Outcomes : GetDaylight(outcome)

SpecDaylight == InitDaylight /\ [][NextDaylight]_vars

(* SpecHours: filter_hours over timestamps around the bounds of a Daylight *)

\* the Daylight of a date as get_daylight builds it from the two cells of the
\* date: a usual day, sunset at sunrise, and sunsets that fall after midnight,
\* which the table of a high latitude lists under the date before its sunrise
ProbeSunriseText == <<4, 19>>
ProbeSunsetTexts == {<<21, 0>>, <<4, 19>>, <<2, 19>>, <<1, 47>>}
ProbeDaylights ==
    {[sunrise |-> Localize(date, ProbeSunriseText), sunset |-> Localize(date, text)] :
        date \in {Saturday, Monday}, text \in ProbeSunsetTexts}
\* seconds from a bound of the Daylight to the timestamp tried
ProbeOffsets == {-3601, -3600, -1, 0, 1, 3600, 3601}

InitHours ==
    /\ Started
    /\ tideFeed = <<>>
    /\ sunriseGrid = FullGrid(SunriseText)
    /\ sunsetGrid = FullGrid(SunsetText)
    /\ \E daylight \in ProbeDaylights : \E d \in ProbeOffsets :
       \E edge \in {daylight.sunrise, daylight.sunset} :
          probe = [t |-> edge + d, daylight |-> daylight]

NextHours == FilterHours

SpecHours == InitHours /\ [][NextHours]_vars

----------------------------------------------------------------------------
(* Claims *)

\* the four predicates of the query, restated on the texts of a feed row and of
\* the request
C1_Flag(args, row) ==
    IF args.tide_type \in {"low", "L"} THEN row.hl = "L" ELSE row.hl = "H"
C1_Below(args, row) ==
    ParseFloat(row.pred).value < ParseFloat(args.prediction_limit).value
C1_Day(args, row) ==
    \/ args.day_filter = "any"
    \/ args.day_filter = "weekday" /\ Weekday(row.date) \in 0 .. 4
    \/ args.day_filter = "weekend" /\ Weekday(row.date) \in {5, 6}
C1_Hours(args, row) ==
    LET ts == Localize(row.date, row.time)
        rise == Localize(row.date, sunriseGrid[<<row.date[2], row.date[3]>>])
        set == Localize(row.date, sunsetGrid[<<row.date[2], row.date[3]>>])
    IN  \/ args.hours_filter = "day" /\ rise <= ts /\ ts <= set
        \/ args.hours_filter = "day_1" /\ rise - 3600 <= ts /\ ts <= set + 3600
        \/ args.hours_filter = "night" /\ (ts < rise \/ ts > set)
        \/ args.hours_filter = "anytime"
C1_Passes(args, row) ==
    C1_Flag(args, row) /\ C1_Below(args, row) /\ C1_Day(args, row)
        /\ C1_Hours(args, row)

\* C1: the tides find_tides returns are exactly the rows of the feed that pass
\* all four predicates (flag, prediction strictly below the limit, day of
\* week, hours), in feed order.
C1_ExactSubsequence ==
    (call.op = "find_tides" /\ ~call.raised) =>
        LET Keep(row) == C1_Passes(call.args, row)
            kept == SelectSeq(TideResponse(tideFeed, call.year), Keep)
        IN  /\ Len(call.tides) = Len(kept)
            /\ \A i \in 1 .. Len(kept) :
                  /\ call.tides[i].date = kept[i].date
                  /\ call.tides[i].tide = Localize(kept[i].date, kept[i].time)
                  /\ call.tides[i].prediction = ParseFloat(kept[i].pred).value
                  /\ (call.tides[i].tide_type = "low") = (kept[i].hl = "L")

\* a request under day_1 that kept one row of a two-row feed and dropped the
\* other; 2024/06/01 is a Saturday and 2024/07/01 a Monday
C1_Witness ==
    /\ call.op = "find_tides" /\ ~call.raised
    /\ call.args.hours_filter = "day_1" /\ call.args.day_filter = "weekday"
    /\ Len(tideFeed) = 2 /\ Len(call.tides) = 1
    /\ call.tides[1].tide = Localize(Monday, <<4, 30>>)
    /\ Weekday(<<2024, 6, 1>>) = 5 /\ Weekday(<<2024, 7, 1>>) = 0

\* the cache files a returned find_tides leaves for its year
C2_Populated ==
    /\ cache[StationsPath] # "missing"
    /\ cache[TidesPath(call.year)] # "missing"
    /\ cache[DaylightPath(call.year)] # "missing"

\* C2: a find_tides call with the arguments of an earlier call that returned
\* fetches nothing and returns what that call returned; and no request
\* fetches a path whose file exists or changes an existing file.
C2_CachedIdempotent ==
    /\ (call.op = "find_tides" /\ remembered.valid /\ remembered.args = call.args)
          => /\ call.fetched = {}
             /\ ~call.raised
             /\ call.tides = remembered.tides
             /\ call.tz = remembered.tz
    /\ \A p \in Paths :
          call.before[p] # "missing" =>
              p \notin call.fetched /\ cache[p] = call.before[p]
    /\ \A p \in call.fetched : call.before[p] = "missing"

\* a repeated request that returned a tide without fetching, after the first
\* one had fetched all three documents
C2_Witness ==
    /\ call.op = "find_tides" /\ remembered.valid /\ remembered.args = call.args
    /\ call.fetched = {} /\ Len(call.tides) = 1
    /\ C2_Populated

\* a row find_tides must refuse: a flag other than H or L, or a date with no
\* entry in the daylight map
C3_BadRow(row) ==
    \/ row.hl \notin {"H", "L"}
    \/ sunriseGrid[<<row.date[2], row.date[3]>>] = <<>>
    \/ sunsetGrid[<<row.date[2], row.date[3]>>] = <<>>

\* C3: when any row of the feed has a flag other than H or L, or a date with no
\* daylight entry, find_tides raises and returns no tides.
C3_NoPartialResults ==
    (call.op = "find_tides" /\ \E i \in DOMAIN tideFeed : C3_BadRow(tideFeed[i]))
        => call.raised /\ call.tides = <<>>

\* the bad row comes second, after a row that passed every filter
C3_Witness ==
    /\ call.op = "find_tides" /\ call.raised /\ call.error = "AssertionError"
    /\ Len(tideFeed) = 2
    /\ ~C3_BadRow(tideFeed[1]) /\ C1_Passes(call.args, tideFeed[1])
    /\ tideFeed[2].hl = "X"

\* an argument that none of TideType, float, DayFilter, HoursFilter, int takes
C4_Uncoercible(args) ==
    \/ args.tide_type \notin {"low", "high", "L", "H"}
    \/ args.prediction_limit \notin FloatTexts
    \/ args.day_filter \notin {"any", "weekday", "weekend"}
    \/ args.hours_filter \notin {"day", "day_1", "night", "anytime"}
    \/ args.year \notin {"omitted", "2024", "2025", "2026"}

\* C4: a find_tides call with an argument that cannot be coerced fails with the
\* validation error before any network retrieval is issued.
C4_ValidationBeforeNetwork ==
    (call.op = "find_tides" /\ C4_Uncoercible(call.args)) =>
        call.raised /\ call.error = "ValueError" /\ call.fetched = {}

\* C5: a find_tides call without a year uses the calendar year current at the
\* moment of the call.
C5_YearAtCallTime ==
    (call.op = "find_tides" /\ ~call.raised /\ call.args.year = "omitted") =>
        call.year = call.at

\* the cells of a date in both grids hold text
C6_InBoth(cell) == sunriseGrid[cell] # <<>> /\ sunsetGrid[cell] # <<>>

\* C6: for any pair of grids, get_daylight returns a map whose keys are exactly
\* the dates with a non-empty cell in both grids, each mapped to the Daylight
\* of those two cells.
C6_KeysInBothGrids ==
    (daylightInfo.done /\ cache[DaylightPath(CURRENT_YEAR)] = "written") =>
        /\ ~daylightInfo.raised
        /\ DOMAIN daylightInfo.value.daylight =
              {<<CURRENT_YEAR, cell[1], cell[2]>> :
                  cell \in {c \in GridCells : C6_InBoth(c)}}
        /\ \A date \in DOMAIN daylightInfo.value.daylight :
              daylightInfo.value.daylight[date] =
                  [sunrise |-> Localize(date, sunriseGrid[<<date[2], date[3]>>]),
                   sunset |-> Localize(date, sunsetGrid[<<date[2], date[3]>>])]

\* C7: with sunrise <= sunset, DAY passes exactly when sunrise <= t <= sunset,
\* NIGHT exactly when t < sunrise or t > sunset, exactly one of the two
\* passes, and ANYTIME passes.
C7_DayNightPartition ==
    (verdict.done /\ probe.daylight.sunrise <= probe.daylight.sunset) =>
        /\ verdict.pass["day"] =
              (probe.daylight.sunrise <= probe.t /\ probe.t <= probe.daylight.sunset)
        /\ verdict.pass["night"] =
              (probe.t < probe.daylight.sunrise \/ probe.t > probe.daylight.sunset)
        /\ verdict.pass["day"] # verdict.pass["night"]
        /\ verdict.pass["anytime"]

\* a tide exactly at sunrise passes DAY and fails NIGHT
C7_Witness ==
    /\ verdict.done
    /\ probe.daylight.sunrise < probe.daylight.sunset
    /\ probe.t = probe.daylight.sunrise
    /\ verdict.pass["day"] /\ ~verdict.pass["night"]

\* the part of C8 that holds for every Daylight
C8_Window ==
    /\ verdict.pass["day_1"] =
          (probe.daylight.sunrise - 3600 <= probe.t
              /\ probe.t <= probe.daylight.sunset + 3600)
    /\ (probe.t = probe.daylight.sunrise - 3601) => ~verdict.pass["day_1"]
    /\ (probe.t = probe.daylight.sunset + 3601) => ~verdict.pass["day_1"]
    /\ verdict.pass["day"] => verdict.pass["day_1"]

\* C8 as stated: for every Daylight, DAY_1 passes exactly on
\* [sunrise - 3600, sunset + 3600], passes at both ends of it, fails one
\* second outside, and passes wherever DAY passes.
C8_AsStated ==
    verdict.done =>
        /\ C8_Window
        /\ (probe.t = probe.daylight.sunrise - 3600) => verdict.pass["day_1"]
        /\ (probe.t = probe.daylight.sunset + 3600) => verdict.pass["day_1"]

\* C8, amended: as stated, the passes at sunrise - 3600 and at sunset + 3600
\* being claimed only for a Daylight with sunrise - 3600 <= sunset + 3600.
C8_WindowNonEmpty ==
    verdict.done =>
        /\ C8_Window
        /\ (probe.daylight.sunrise - 3600 <= probe.daylight.sunset + 3600) =>
              /\ (probe.t = probe.daylight.sunrise - 3600) => verdict.pass["day_1"]
              /\ (probe.t = probe.daylight.sunset + 3600) => verdict.pass["day_1"]

\* a tide one hour before sunrise passes DAY_1 and fails DAY
C8_Witness ==
    /\ verdict.done
    /\ probe.daylight.sunrise < probe.daylight.sunset
    /\ probe.t = probe.daylight.sunrise - 3600
    /\ verdict.pass["day_1"] /\ ~verdict.pass["day"]

\* C9: tide_type "L" gives the result of "low" and "H" the result of "high";
\* with the low type only rows flagged L are returned, with the high type only
\* rows flagged H.
C9_AliasesAgree ==
    (call.op = "find_tides") =>
        LET word == IF call.args.tide_type = "L" THEN "low"
                    ELSE IF call.args.tide_type = "H" THEN "high"
                    ELSE call.args.tide_type
            other == find_tides(call.before, [call.args EXCEPT !.tide_type = word],
                                <<"ok", "ok", "ok">>, tideFeed, sunriseGrid,
                                sunsetGrid, DefaultYear)
        IN  /\ other.raised = call.raised
            /\ other.error = call.error
            /\ other.tides = call.tides
            /\ other.tz = call.tz
            /\ \A i \in DOMAIN call.tides : call.tides[i].tide_type = word

\* a request with the alias L that returned a tide
C9_Witness ==
    /\ call.op = "find_tides" /\ ~call.raised
    /\ call.args.tide_type = "L"
    /\ Len(call.tides) >= 1

\* C10: a cache file exists only if a retrieval for its path ran to
\* completion, and then holds the complete response.
C10_OnlyCompleteFiles ==
    \A p \in Paths : cache[p] # "missing" => cache[p] = "written"

====
